---- MODULE Spec2Model ----
(***************************************************************************)
(* Auto File Organizer: organizer.py (classify, safe_move, organize, CLI)  *)
(* and watcher.py (DebouncedHandler, main) over an abstract filesystem.    *)
(*                                                                         *)
(* A file name is a sequence of tokens: the name split before every "."    *)
(* and around every "(i)" group, so "a(1).pdf" is <<"a", "(1)", ".pdf">>.  *)
(* A path is the sequence of names below the organizing root (Path.parts   *)
(* of the path relative to target), so the root itself is <<>>.            *)
(***************************************************************************)
EXTENDS Integers, Sequences, FiniteSets, TLC

VARIABLES
    files,      \* filesystem: path -> identity of the regular file stored there
    dirs,       \* filesystem: set of directory paths below the root
    pc,         \* organizer.py process: "idle", "running", "done", "raised"
    todo,       \* organize: entries of the list `files` not yet iterated
    dry_run,    \* organize: its dry_run argument
    recursive,  \* organize: its recursive argument
    log,        \* lines logged by organize / safe_move, as records
    runs,       \* number of organizer invocations so far
    externals,  \* number of external filesystem changes so far
    hist,       \* history: filesystem at the start of the current pass, and
                \* what the previous pass was
    session,    \* watcher.py main: "off", "watching", "stopped", "exited"
    args_dry,   \* watcher.py: args.dry, kept as DebouncedHandler.dry_run
    timer,      \* DebouncedHandler._timer: 0 (None) or the index of a Timer
    timers,     \* every threading.Timer created, in creation order
    events,     \* filesystem events the observer has queued for the handler
    idle,       \* ticks since the handler last accepted an event, while a
                \* timer waits
    wh,         \* history: bursts begun, passes started, and the ticks between
                \* the last accepted event and the last pass start
    config,     \* config.py as the user left it: the value of OTHER_FOLDER
    pure        \* a call of one function on drawn arguments, and what it returned

\* The variables of the one-shot organizer, of the watch session, and all.
ovars == <<pc, todo, dry_run, recursive, log, runs, hist>>
wvars == <<session, args_dry, timer, timers, events, idle, wh>>
cvars == <<config, pure>>
vars == <<files, dirs, externals, ovars, wvars, cvars>>

----------------------------------------------------------------------------
\* Bounds of the model

MaxInitFiles == 3   \* files in the initial tree
MaxRuns == 2        \* organizer invocations in one behaviour
MaxExternal == 1    \* external file creations in one behaviour
MaxWatchEvents == 2 \* external file writes during a watch session
MaxTimers == 3      \* timers created in one watch session

----------------------------------------------------------------------------
\* config.py

EXT_MAP ==
    (".jpg" :> "Images") @@ (".jpeg" :> "Images") @@ (".png" :> "Images") @@
    (".gif" :> "Images") @@ (".bmp" :> "Images") @@
    (".pdf" :> "Documents") @@ (".docx" :> "Documents") @@ (".doc" :> "Documents") @@
    (".txt" :> "Documents") @@ (".pptx" :> "Documents") @@ (".ppt" :> "Documents") @@
    (".xlsx" :> "Documents") @@ (".xls" :> "Documents") @@
    (".zip" :> "Archives") @@ (".rar" :> "Archives") @@ (".tar" :> "Archives") @@
    (".gz" :> "Archives") @@
    (".mp4" :> "Videos") @@ (".mkv" :> "Videos") @@ (".mov" :> "Videos") @@
    (".mp3" :> "Audio") @@ (".wav" :> "Audio") @@
    (".py" :> "Code") @@ (".cpp" :> "Code") @@ (".c" :> "Code") @@ (".h" :> "Code") @@
    (".java" :> "Code") @@ (".js" :> "Code") @@
    (".exe" :> "Installers") @@ (".msi" :> "Installers")

\* config.py, line 25, as shipped
ShippedConfig == [OTHER_FOLDER |-> "Others"]

\* The module-level name OTHER_FOLDER that organizer.py imports from config.py.
OTHER_FOLDER == config.OTHER_FOLDER

----------------------------------------------------------------------------
\* watcher.py parse_args: --debounce defaults to 1.0 second; the clock of the
\* model ticks every half second.
Debounce == 2

----------------------------------------------------------------------------
\* Names and paths (pathlib)

\* Tokens that start with a dot; every other token holds no dot.
DotTokens == DOMAIN EXT_MAP \cup {".PDF", ".JPG", ".unknownext"}

IsDot(t) == t \in DotTokens

\* str.lower() on one token
LowerToken(t) ==
    CASE t = ".PDF" -> ".pdf"
      [] t = ".JPG" -> ".jpg"
      [] OTHER -> t

\* str.lower() on a token sequence
Lower(s) == [k \in 1..Len(s) |-> LowerToken(s[k])]

\* Index of the token holding the last "." of the name, 0 when there is none
\* (str.rfind(".") in PurePath.suffix).
LastDot(name) ==
    LET at == {k \in 1..Len(name) : IsDot(name[k])}
    IN  IF at = {} THEN 0 ELSE CHOOSE k \in at : \A j \in at : j <= k

\* PurePath.suffix: the name from its last dot on, unless that dot starts the name.
Suffix(name) ==
    LET i == LastDot(name)
    IN  IF i > 1 THEN SubSeq(name, i, Len(name)) ELSE <<>>

\* PurePath.stem: the name without its suffix.
Stem(name) ==
    LET i == LastDot(name)
    IN  IF i > 1 THEN SubSeq(name, 1, i - 1) ELSE name

\* The name of a folder given as a string without dots or "(i)" groups.
FolderName(s) == <<s>>

\* Path.parent and Path.name of a non-empty path
Parent(p) == SubSeq(p, 1, Len(p) - 1)
BaseName(p) == p[Len(p)]

\* The first name of a path that does not lie under the root (the resolved
\* target of a symbolic link, say): Path.relative_to(target) raises ValueError
\* for such a path and for no other.
Up == <<"..">>

RelativeToRaises(p) == Len(p) > 0 /\ p[1] = Up

\* Every directory a path lies in, the root excluded: the chain that
\* mkdir(parents=True) walks for Parent(p).
Ancestors(p) == {SubSeq(p, 1, k) : k \in 1..(Len(p) - 1)}

----------------------------------------------------------------------------
\* Filesystem primitives

\* Path.exists()
Exists(p, fs, ds) == p \in DOMAIN fs \/ p \in ds \/ p = <<>>

\* Path.mkdir(parents=True, exist_ok=True) on directory d raises (FileExistsError
\* or NotADirectoryError) when d or one of its ancestors is a regular file.
MkdirRaises(d, fs) == \E k \in 1..Len(d) : SubSeq(d, 1, k) \in DOMAIN fs

\* The directories after a successful mkdir(parents=True, exist_ok=True) of d.
Mkdir(d, ds) == ds \cup {SubSeq(d, 1, k) : k \in 1..Len(d)}

\* Mutant of Rename: the file is copied and the source is left in place.
Rename_Copy(src, dst, fs) ==
    [p \in DOMAIN fs \cup {dst} |-> IF p = dst THEN fs[src] ELSE fs[p]]

\* shutil.move(src, dst) of a regular file onto a path that does not exist.
Rename(src, dst, fs) ==
    [p \in (DOMAIN fs \ {src}) \cup {dst} |-> IF p = dst THEN fs[src] ELSE fs[p]]

----------------------------------------------------------------------------
\* organizer.py

\* find_files: the regular files directly in target, or at any depth.
find_files(fs, rec) ==
    IF rec THEN DOMAIN fs ELSE {p \in DOMAIN fs : Len(p) = 1}

\* Mutant of classify: the suffix is looked up as written, without lower().
classify_NoLower(file, mapping) ==
    LET key == Suffix(BaseName(file))
    IN  IF Len(key) = 1 /\ key[1] \in DOMAIN mapping
        THEN mapping[key[1]]
        ELSE OTHER_FOLDER

\* classify: mapping.get(file.suffix.lower(), OTHER_FOLDER). The keys are single
\* dot tokens, so a suffix of several tokens (".tar(1)") is no key.
classify(file, mapping) ==
    LET key == Lower(Suffix(BaseName(file)))
    IN  IF Len(key) = 1 /\ key[1] \in DOMAIN mapping
        THEN mapping[key[1]]
        ELSE OTHER_FOLDER

\* Mutant of dest_folder_names: the fallback folder is left out of the set.
dest_folder_names_NoFallback(mapping) ==
    {mapping[k] : k \in DOMAIN mapping}

\* organize, line 75: set(mapping.values()) | {OTHER_FOLDER}
dest_folder_names(mapping) ==
    {mapping[k] : k \in DOMAIN mapping} \cup {OTHER_FOLDER}

\* Mutant of AlreadyOrganized: the test looks at the file's own name instead of
\* the first part of its relative path.
AlreadyOrganized_ByName(rel, names) ==
    Len(rel) > 0 /\ rel[Len(rel)] \in {FolderName(d) : d \in names}

\* organize, line 92: rel.parts and rel.parts[0] in dest_folder_names
AlreadyOrganized(rel, names) ==
    Len(rel) > 0 /\ rel[1] \in {FolderName(d) : d \in names}

\* organize, lines 84-94: the loop goes on to classify f. A path whose
\* relative path cannot be computed is passed over (lines 87-89), and so is an
\* already organized one (lines 92-94).
Eligible(f, names) == ~RelativeToRaises(f) /\ ~AlreadyOrganized(f, names)

\* Mutant of Destination: the file's directories below the root are dropped in
\* recursive mode too.
Destination_Flat(rel, folder, rec) ==
    <<FolderName(folder), BaseName(rel)>>

\* Mutant of Destination: the category folder is made inside the file's own
\* directory.
Destination_InPlace(rel, folder, rec) ==
    IF rec /\ Parent(rel) # <<>>
    THEN Parent(rel) \o <<FolderName(folder), BaseName(rel)>>
    ELSE <<FolderName(folder), BaseName(rel)>>

\* organize, lines 98-102: the requested destination of an eligible file
Destination(rel, folder, rec) ==
    IF rec /\ Parent(rel) # <<>>
    THEN <<FolderName(folder)>> \o Parent(rel) \o <<BaseName(rel)>>
    ELSE <<FolderName(folder), BaseName(rel)>>

\* safe_move, line 62: dst.with_name(f"{dst.stem}({i}){dst.suffix}")
Indexed(dst, i) ==
    Parent(dst) \o
    << Stem(BaseName(dst)) \o <<"(" \o ToString(i) \o ")">> \o Suffix(BaseName(dst)) >>

\* Mutant of Resolve: `if` in place of `while`, the first candidate is taken
\* without looking whether it exists.
Resolve_Once(final_dst, dst, i, fs, ds) ==
    IF Exists(final_dst, fs, ds) THEN Indexed(dst, i) ELSE final_dst

\* safe_move, lines 59-63: the while loop, entered with final_dst and i
RECURSIVE Resolve(_, _, _, _, _)
Resolve(final_dst, dst, i, fs, ds) ==
    IF Exists(final_dst, fs, ds)
    THEN Resolve(Indexed(dst, i), dst, i + 1, fs, ds)
    ELSE final_dst

\* safe_move(src, dst, dry_run) on filesystem (fs, ds): the filesystem after it,
\* the line it logs, and whether it raised.
safe_move(src, dst, dry, fs, ds) ==
    IF MkdirRaises(Parent(dst), fs)
    THEN [kind |-> "raised", src |-> src, req |-> dst, dst |-> dst,
          files |-> fs, dirs |-> ds]
    ELSE LET ds2 == Mkdir(Parent(dst), ds)
         IN  IF dry
             THEN [kind |-> "dry", src |-> src, req |-> dst, dst |-> dst,
                   files |-> fs, dirs |-> ds2]
             ELSE LET final_dst == Resolve(dst, dst, 1, fs, ds2)
                  IN  IF src \notin DOMAIN fs
                      THEN [kind |-> "raised", src |-> src, req |-> dst,
                            dst |-> final_dst, files |-> fs, dirs |-> ds2]
                      ELSE [kind |-> "moved", src |-> src, req |-> dst,
                            dst |-> final_dst,
                            files |-> Rename(src, final_dst, fs), dirs |-> ds2]

\* organize, lines 82-104: one iteration of the loop, for listed file f.
organize_file(f, mapping, dry, rec, fs, ds) ==
    IF ~Eligible(f, dest_folder_names(mapping))
    THEN [kind |-> "skip", src |-> f, req |-> f, dst |-> f, files |-> fs, dirs |-> ds]
    ELSE safe_move(f, Destination(f, classify(f, mapping), rec), dry, fs, ds)

\* The line a loop iteration logs.
Line(r) == [kind |-> r.kind, src |-> r.src, req |-> r.req, dst |-> r.dst]

----------------------------------------------------------------------------
\* The one-shot organizer (organizer.py run from the command line, one
\* invocation after the other, on one root)

\* The paths the initial tree is drawn from, and the identity of the file at each.
InitPaths ==
    << << <<"a", ".pdf">> >>,
       << <<"b", ".JPG">> >>,
       << <<"c", ".unknownext">> >>,
       << <<"sub">>, <<"a", ".pdf">> >>,
       << <<"Documents">>, <<"a", ".pdf">> >>,
       << <<"Documents">>, <<"a", "(1)", ".pdf">> >>,
       << <<"Images">> >> >>

\* The paths at which another program creates a file between two invocations.
ExternalPaths ==
    { << <<"a", ".pdf">> >>,
      << <<"Documents">>, <<"a", ".pdf">> >> }

\* A set of file paths is a tree when no file lies below another file.
IsTree(ps) == \A p \in ps : \A q \in ps : p \notin Ancestors(q)

InitTrees ==
    {ks \in SUBSET (1..Len(InitPaths)) :
        /\ Cardinality(ks) <= MaxInitFiles
        /\ IsTree({InitPaths[k] : k \in ks})}

\* files0, dirs0: the filesystem when the current pass began; listed: what its
\* find_files returned; external: another program changed the tree since then;
\* clean: the last pass was a real pass of a valid root that returned normally,
\* with recursive flag cleanRec and cleanMoved files moved, and nothing changed
\* the tree since; second: the current pass is a real pass that began in such a
\* state, with the same recursive flag, prevMoved being that pass's cleanMoved.
\* No event has been handled and no pass started: bursts begun, passes started,
\* ticks between the last accepted event and the last pass start, events that
\* went on to _schedule_run, how many of them had gone on when the last pass
\* started, and the arguments of the last organize call.
NoWatchHist ==
    [bursts |-> 0, fired |-> 0, waited |-> 0, accepted |-> 0, served |-> 0,
     dry_run |-> FALSE, recursive |-> FALSE]

\* No function has been called on drawn arguments.
NoCall == [op |-> "none"]

NoHist ==
    [files0 |-> <<>>, dirs0 |-> {}, listed |-> {}, external |-> FALSE,
     clean |-> FALSE, cleanRec |-> FALSE, cleanMoved |-> 0, second |-> FALSE,
     prevMoved |-> 0, origin |-> <<>>]

Init ==
    /\ \E ks \in InitTrees :
          /\ files = [p \in {InitPaths[k] : k \in ks} |->
                         CHOOSE k \in ks : InitPaths[k] = p]
          /\ dirs = UNION {Ancestors(InitPaths[k]) : k \in ks}
    /\ pc = "idle"
    /\ todo = {}
    /\ dry_run = TRUE
    /\ recursive = FALSE
    /\ log = {}
    /\ runs = 0
    /\ externals = 0
    /\ hist = NoHist
    /\ session = "off"
    /\ args_dry = FALSE
    /\ timer = 0
    /\ timers = <<>>
    /\ events = <<>>
    /\ idle = 0
    /\ wh = NoWatchHist
    /\ config = ShippedConfig
    /\ pure = NoCall

\* __main__, line 119: dry = not args.apply; --dry and --apply exclude each other.
DryFromArgs(flag) == ~(flag = "--apply")

\* The history kept when a pass returns normally: was it a real pass of a valid
\* root, and with which recursive flag.
Returned(h, dry, rec, valid, lines) ==
    [h EXCEPT !.clean = valid /\ ~dry /\ ~h.external, !.cleanRec = rec,
              !.cleanMoved = Cardinality({l \in lines : l.kind = "moved"})]

\* python organizer.py --path <target> [--dry | --apply] [--recursive]:
\* __main__ and organize up to the loop (lines 117-121, 68-80).
Invoke(flag, rec, valid) ==
    /\ session = "off"
    /\ pc # "running"
    /\ runs < MaxRuns
    /\ LET dry == DryFromArgs(flag)
           listing == IF valid THEN find_files(files, rec) ELSE {}
           h == [files0 |-> files, dirs0 |-> dirs, listed |-> listing,
                 external |-> FALSE,
                 clean |-> FALSE, cleanRec |-> FALSE, cleanMoved |-> 0,
                 second |-> valid /\ ~dry /\ hist.clean /\ hist.cleanRec = rec,
                 prevMoved |-> hist.cleanMoved,
                 origin |-> IF hist.clean THEN hist.origin ELSE files]
       IN  /\ dry_run' = dry
           /\ recursive' = rec
           /\ todo' = listing
           /\ pc' = IF listing = {} THEN "done" ELSE "running"
           /\ log' = IF ~valid THEN {[kind |-> "error", src |-> <<>>, req |-> <<>>, dst |-> <<>>]}
                     ELSE IF listing = {}
                          THEN {[kind |-> "nothing", src |-> <<>>, req |-> <<>>, dst |-> <<>>]}
                          ELSE {}
           /\ hist' = IF listing = {} THEN Returned(h, dry, rec, valid, {}) ELSE h
    /\ runs' = runs + 1
    /\ UNCHANGED <<files, dirs, externals, wvars, cvars>>

\* organize, lines 82-104: the next iteration of the loop, in any enumeration
\* order; an exception raised by safe_move leaves organize and ends the process.
ProcessFile ==
    /\ pc = "running"
    /\ \E f \in todo :
          LET r == organize_file(f, EXT_MAP, dry_run, recursive, files, dirs)
          IN  /\ files' = r.files
              /\ dirs' = r.dirs
              /\ log' = log \cup {Line(r)}
              /\ todo' = todo \ {f}
              /\ pc' = IF r.kind = "raised" THEN "raised"
                       ELSE IF todo' = {} THEN "done" ELSE "running"
              /\ hist' = IF r.kind # "raised" /\ todo' = {}
                         THEN Returned(hist, dry_run, recursive, TRUE, log')
                         ELSE hist
    /\ UNCHANGED <<dry_run, recursive, runs, externals, wvars, cvars>>

\* Another program creates a file under the root while no organizer runs.
ExternalCreate(p) ==
    /\ session = "off"
    /\ pc # "running"
    /\ externals < MaxExternal
    /\ ~Exists(p, files, dirs)
    /\ Ancestors(p) \subseteq dirs
    /\ files' = [q \in DOMAIN files \cup {p} |->
                    IF q = p THEN 100 + externals ELSE files[q]]
    /\ externals' = externals + 1
    /\ hist' = [hist EXCEPT !.clean = FALSE, !.second = FALSE, !.external = TRUE]
    /\ UNCHANGED <<dirs, pc, todo, dry_run, recursive, log, runs, wvars, cvars>>

Next ==
    \/ \E flag \in {"none", "--dry", "--apply"}, rec \in BOOLEAN, valid \in BOOLEAN :
          Invoke(flag, rec, valid)
    \/ ProcessFile
    \/ \E p \in ExternalPaths : ExternalCreate(p)

Spec == Init /\ [][Next]_vars

----------------------------------------------------------------------------
\* watcher.py: one watch session on the root

\* DebouncedHandler.__init__, line 50: set(EXT_MAP.values()) | {"Others"}
dest_folders(mapping) == {mapping[k] : k \in DOMAIN mapping} \cup {"Others"}

\* DebouncedHandler._should_ignore: the event's path, relative to the target,
\* starts with a destination folder name; when relative_to raises, the except
\* clause returns False (lines 81-83).
should_ignore(event, names) ==
    IF RelativeToRaises(event.src_path)
    THEN FALSE
    ELSE Len(event.src_path) > 0 /\ event.src_path[1] \in {FolderName(d) : d \in names}

\* DebouncedHandler.on_any_event, lines 87-91: the event goes on to _schedule_run.
Accepted(event) ==
    ~event.is_directory /\ ~should_ignore(event, dest_folders(EXT_MAP))

\* A threading.Timer just started by _schedule_run; `by` records whether the
\* event that armed it came from the organizer's own write.
NewTimer(by) == [st |-> "armed", left |-> Debounce, by |-> by, todo |-> {}]

\* Timer.cancel(): ends the wait of a timer that has not fired, and nothing else.
Cancel(t) == IF t.st = "armed" THEN [t EXCEPT !.st = "cancelled", !.left = 0] ELSE t

\* Mutant of schedule_run: the previous timer is not cancelled.
schedule_run_NoCancel(tms, cur, by) == Append(tms, NewTimer(by))

\* Mutant of schedule_run: a timer is started only while the handle is None.
schedule_run_IfNone(tms, cur, by) ==
    IF cur # 0 THEN tms ELSE Append(tms, NewTimer(by))

\* DebouncedHandler._schedule_run, under the lock: cancel the timer the handle
\* names, start a new one; the handle then names the new one.
schedule_run(tms, cur, by) ==
    Append(IF cur # 0 THEN [tms EXCEPT ![cur] = Cancel(tms[cur])] ELSE tms,
           NewTimer(by))

\* The events the observer queues for a step of a pass that turned the
\* directories ds into r.dirs: a directory event when mkdir made a directory, and
\* for a move an event whose src_path is the source path (the moved event, or
\* the deleted event where a move is reported as delete and create) followed by
\* the event at the final path (the created event).
StepEvents(r, ds) ==
    (IF r.dirs # ds
     THEN <<[is_directory |-> TRUE, src_path |-> Parent(r.req), own |-> TRUE]>>
     ELSE <<>>)
    \o
    (IF r.kind = "moved"
     THEN <<[is_directory |-> FALSE, src_path |-> r.src, own |-> TRUE]>>
          \o <<[is_directory |-> FALSE, src_path |-> r.dst, own |-> TRUE]>>
     ELSE <<>>)

\* The paths the initial tree of a watch session is drawn from, and the paths
\* at which other programs write files during the session.
WatchInitPaths ==
    << << <<"a", ".pdf">> >>,
       << <<"Images">> >> >>

WatchExternalPaths ==
    { << <<"b", ".JPG">> >>,
      << <<"Documents">>, <<"a", ".pdf">> >> }

WatchInitTrees ==
    {ks \in SUBSET (1..Len(WatchInitPaths)) : IsTree({WatchInitPaths[k] : k \in ks})}

\* watcher.py main, lines 105-116, for an existing target: the handler is built
\* from args.dry and the observer is started.
WatchInit ==
    /\ \E ks \in WatchInitTrees :
          /\ files = [p \in {WatchInitPaths[k] : k \in ks} |->
                         CHOOSE k \in ks : WatchInitPaths[k] = p]
          /\ dirs = UNION {Ancestors(WatchInitPaths[k]) : k \in ks}
    /\ externals = 0
    /\ pc = "idle"
    /\ todo = {}
    /\ dry_run = TRUE
    /\ recursive = FALSE
    /\ log = {}
    /\ runs = 0
    /\ hist = NoHist
    /\ session = "watching"
    /\ args_dry \in BOOLEAN
    /\ timer = 0
    /\ timers = <<>>
    /\ events = <<>>
    /\ idle = 0
    /\ wh = NoWatchHist
    /\ config = ShippedConfig
    /\ pure = NoCall

Armed == {id \in 1..Len(timers) : timers[id].st = "armed"}

\* Another program writes a file under the watched root, creating it when it
\* is not there; the observer queues the file event (created or modified).
WatchExternalWrite(p) ==
    /\ session = "watching"
    /\ externals < MaxWatchEvents
    /\ p \notin dirs
    /\ ~MkdirRaises(Parent(p), files)
    /\ files' = [q \in DOMAIN files \cup {p} |->
                    IF q \in DOMAIN files THEN files[q] ELSE 100 + externals]
    /\ dirs' = dirs \cup Ancestors(p)
    /\ externals' = externals + 1
    /\ events' = Append(events, [is_directory |-> FALSE, src_path |-> p, own |-> FALSE])
    /\ UNCHANGED <<ovars, cvars, session, args_dry, timer, timers, idle, wh>>

\* DebouncedHandler.on_any_event for the next queued event.
OnAnyEvent ==
    /\ session = "watching"
    /\ events # <<>>
    /\ LET e == Head(events)
       IN  IF Accepted(e)
           THEN /\ Len(timers) < MaxTimers
                /\ timers' = schedule_run(timers, timer, IF e.own THEN "own" ELSE "external")
                /\ timer' = Len(timers')
                /\ idle' = 0
                /\ wh' = [wh EXCEPT !.bursts = IF Armed = {} THEN @ + 1 ELSE @,
                                     !.accepted = @ + 1]
           ELSE UNCHANGED <<timer, timers, idle, wh>>
    /\ events' = Tail(events)
    /\ UNCHANGED <<files, dirs, externals, ovars, cvars, session, args_dry>>

\* One clock tick while a timer waits: no timer is left waiting past its
\* interval.
Tick ==
    /\ session \in {"watching", "stopped"}
    /\ Armed # {}
    /\ \A id \in Armed : timers[id].left > 0
    /\ timers' = [id \in 1..Len(timers) |->
                     IF timers[id].st = "armed"
                     THEN [timers[id] EXCEPT !.left = @ - 1]
                     ELSE timers[id]]
    /\ idle' = idle + 1
    /\ UNCHANGED <<files, dirs, externals, ovars, cvars, session, args_dry, timer, events, wh>>

\* The state of a timer whose pass has ended: by returning, or by an exception
\* that _run_organizer caught (lines 67-68).
Ended(t, raised) == [t EXCEPT !.st = IF raised THEN "failed" ELSE "finished", !.todo = {}]

\* The listed files whose loop iteration does more than `continue` (organize,
\* lines 92-94). The iterations of the others read and write nothing shared, so
\* a step of a watch session's pass runs the loop through them up to and
\* including the next file of this set, or to the end of the list.
Pending(listed) ==
    {f \in listed : ~AlreadyOrganized(f, dest_folder_names(EXT_MAP))}

\* A timer's interval has passed uncancelled: Timer.run calls _run_organizer,
\* which calls organize(target, EXT_MAP, dry_run=self.dry_run, recursive=True)
\* up to the first listed file that is not skipped.
Fire(id) ==
    /\ session \in {"watching", "stopped"}
    /\ id \in Armed
    /\ timers[id].left = 0
    /\ LET listing == Pending(find_files(files, TRUE))
       IN  timers' = [timers EXCEPT ![id] =
                         IF listing = {}
                         THEN Ended(@, FALSE)
                         ELSE [@ EXCEPT !.st = "running", !.todo = listing]]
    /\ wh' = [wh EXCEPT !.fired = @ + 1, !.waited = idle,
                         !.served = wh.accepted,
                         !.dry_run = args_dry, !.recursive = TRUE]
    /\ idle' = 0
    /\ UNCHANGED <<files, dirs, externals, ovars, cvars, session, args_dry, timer, events>>

\* The pass that timer id runs handles its next file that is not skipped, in any
\* enumeration order; an exception leaves organize and is caught by
\* _run_organizer.
PassStep(id) ==
    /\ session \in {"watching", "stopped"}
    /\ id \in 1..Len(timers)
    /\ timers[id].st = "running"
    /\ \E f \in timers[id].todo :
          LET r == organize_file(f, EXT_MAP, args_dry, TRUE, files, dirs)
              left == timers[id].todo \ {f}
          IN  /\ files' = r.files
              /\ dirs' = r.dirs
              /\ events' = IF session = "watching"
                           THEN events \o StepEvents(r, dirs)
                           ELSE events
              /\ timers' = [timers EXCEPT ![id] =
                               IF r.kind = "raised" THEN Ended(@, TRUE)
                               ELSE IF left = {} THEN Ended(@, FALSE)
                               ELSE [@ EXCEPT !.todo = left]]
    /\ UNCHANGED <<externals, ovars, cvars, session, args_dry, timer, idle, wh>>

\* main, lines 118-133: the duration has passed or the user interrupts;
\* observer.stop() and observer.join().
Stop ==
    /\ session = "watching"
    /\ session' = "stopped"
    /\ events' = <<>>
    /\ UNCHANGED <<files, dirs, externals, ovars, cvars, args_dry, timer, timers, idle, wh>>

\* main returns and the interpreter exits: the timers are daemon threads
\* (line 57) and end with it.
Exit ==
    /\ session = "stopped"
    /\ session' = "exited"
    /\ UNCHANGED <<files, dirs, externals, ovars, cvars, args_dry, timer, timers, events, idle, wh>>

WatchNext ==
    \/ \E p \in WatchExternalPaths : WatchExternalWrite(p)
    \/ OnAnyEvent
    \/ Tick
    \/ \E id \in 1..MaxTimers : Fire(id)
    \/ \E id \in 1..MaxTimers : PassStep(id)
    \/ Stop
    \/ Exit

WatchSpec == WatchInit /\ [][WatchNext]_vars

\* The watch session under fair scheduling: the observer's thread hands every
\* queued event to the handler, the clock advances, and the thread of a timer
\* whose interval has passed gets to run.
WatchFairSpec ==
    /\ WatchSpec
    /\ WF_vars(OnAnyEvent)
    /\ WF_vars(Tick)
    /\ WF_vars(\E id \in 1..MaxTimers : Fire(id))

----------------------------------------------------------------------------
\* Single calls of classify, of the two path filters and of the two folder-set
\* constructions, on drawn arguments and under a drawn configuration

\* File paths handed to classify.
PurePaths ==
    { << <<"a", ".pdf">> >>,
      << <<"a", ".PDF">> >>,
      << <<"b", ".JPG">> >>,
      << <<"b", ".jpg">> >>,
      << <<"c", ".unknownext">> >>,
      << <<"a", ".tar", ".gz">> >>,
      << <<"README">> >>,
      << <<".gz">> >>,
      << <<"a", ".tar", "(1)">> >>,
      << <<"x", ".zip">>, <<"README">> >>,
      << <<"x", ".zip">>, <<"a", ".PDF">> >> }

\* Extension maps with lower-cased keys: the shipped one, a user's, an empty one.
PureMaps ==
    { EXT_MAP,
      (".pdf" :> "Papers") @@ (".gz" :> "Others"),
      <<>> }

\* config.py with OTHER_FOLDER as shipped, and as a user changed it.
PureConfigs == {ShippedConfig, [OTHER_FOLDER |-> "Misc"]}

\* Paths of filesystem events: under the root, inside category folders, inside
\* a folder named as either fallback, and not under the root.
PureEventPaths ==
    { << <<"a", ".pdf">> >>,
      << <<"sub">>, <<"a", ".pdf">> >>,
      << <<"sub">>, <<"Images">>, <<"b", ".jpg">> >>,
      << <<"Images">>, <<"b", ".jpg">> >>,
      << <<"Documents">>, <<"sub">>, <<"a", ".pdf">> >>,
      << <<"Others">>, <<"README">> >>,
      << <<"Misc">>, <<"README">> >>,
      << Up, <<"a", ".pdf">> >> }

PureEvents == [is_directory : BOOLEAN, src_path : PureEventPaths]

\* The calls: classify on two paths and a map; the watcher's event test and
\* organize's path test on one event path; the two folder-name sets for a map.
PureCalls ==
    [op : {"call"}, fn : {"classify"}, file : PurePaths, other : PurePaths,
     mapping : PureMaps]
    \cup [op : {"call"}, fn : {"filter"}, event : PureEvents]
    \cup [op : {"call"}, fn : {"dest_folders"}, mapping : PureMaps]

PureInit ==
    /\ files = <<>>
    /\ dirs = {}
    /\ externals = 0
    /\ pc = "idle"
    /\ todo = {}
    /\ dry_run = TRUE
    /\ recursive = FALSE
    /\ log = {}
    /\ runs = 0
    /\ hist = NoHist
    /\ session = "off"
    /\ args_dry = FALSE
    /\ timer = 0
    /\ timers = <<>>
    /\ events = <<>>
    /\ idle = 0
    /\ wh = NoWatchHist
    /\ config \in PureConfigs
    /\ pure \in PureCalls

\* classify(file, mapping) and classify(other, mapping) return.
CallClassify ==
    /\ pure.op = "call" /\ pure.fn = "classify"
    /\ pure' = [op |-> "returned", fn |-> "classify",
                file |-> pure.file, other |-> pure.other, mapping |-> pure.mapping,
                category |-> classify(pure.file, pure.mapping),
                category_other |-> classify(pure.other, pure.mapping)]
    /\ UNCHANGED <<files, dirs, externals, ovars, wvars, config>>

\* on_any_event decides whether the event goes on to _schedule_run, and
\* organize decides whether a listed path goes on to classify; organize lists
\* regular files only (find_files).
CallFilter ==
    /\ pure.op = "call" /\ pure.fn = "filter"
    /\ pure' = [op |-> "returned", fn |-> "filter", event |-> pure.event,
                armed |-> Accepted(pure.event),
                eligible |-> /\ ~pure.event.is_directory
                             /\ Eligible(pure.event.src_path,
                                         dest_folder_names(EXT_MAP))]
    /\ UNCHANGED <<files, dirs, externals, ovars, wvars, config>>

\* DebouncedHandler.__init__ builds dest_folders and organize builds
\* dest_folder_names, from the same map.
CallDestFolders ==
    /\ pure.op = "call" /\ pure.fn = "dest_folders"
    /\ pure' = [op |-> "returned", fn |-> "dest_folders", mapping |-> pure.mapping,
                watcher |-> dest_folders(pure.mapping),
                organizer |-> dest_folder_names(pure.mapping)]
    /\ UNCHANGED <<files, dirs, externals, ovars, wvars, config>>

PureNext ==
    \/ CallClassify
    \/ CallFilter
    \/ CallDestFolders

PureSpec == PureInit /\ [][PureNext]_vars

----------------------------------------------------------------------------
\* Properties of the one-shot organizer

\* The destination category names, from the configuration.
Categories == {EXT_MAP[k] : k \in DOMAIN EXT_MAP} \cup {OTHER_FOLDER}

\* A path at root/D/... (or the entry root/D itself) for a category name D.
UnderCategory(p) == Len(p) > 0 /\ \E D \in Categories : p[1] = <<D>>

\* The current pass has returned or died, and no other program touched the tree.
PassEnded == pc \in {"done", "raised"} /\ runs > 0 /\ ~hist.external

\* C1: a real-mode pass that directly follows a complete real-mode pass of the
\* same root with the same recursive flag, with no external change in between,
\* moves no file, raises nothing and leaves every file where it was.
C1_SecondPassMovesNothing ==
    hist.second =>
        /\ files = hist.files0
        /\ pc # "raised"
        /\ \A l \in log : l.kind \notin {"moved", "raised"}

\* C1 witness: the second recursive real pass has returned after a first pass
\* that moved two files.
C1_Witness ==
    /\ hist.second /\ pc = "done" /\ recursive
    /\ hist.prevMoved >= 2
    /\ hist.listed # {}

\* C2 (as claimed): when a dry-run call has ended, every file is where it was and
\* every eligible listed file got a planned move.
C2_DryRunPlansAll ==
    (PassEnded /\ dry_run) =>
        /\ files = hist.files0
        /\ \A f \in hist.listed :
              ~UnderCategory(f) => \E l \in log : l.kind = "dry" /\ l.src = f

\* C3 (as claimed): during and after a dry-run call the filesystem under the
\* root, directories included, is what it was when the call began.
C3_DryRunNoMutation ==
    (runs > 0 /\ dry_run /\ ~hist.external) =>
        (files = hist.files0 /\ dirs = hist.dirs0)

\* C4: no step of any pass (dry or real, recursive or not) moves, removes or
\* replaces a file located at root/D/... for a category name D, and the only
\* line a pass logs for such a file is the skip line.
C4_Step ==
    \A p \in DOMAIN files :
        UnderCategory(p) =>
            /\ p \in DOMAIN files' /\ files'[p] = files[p]
            /\ \A l \in log' : l.src = p => l.kind = "skip"

C4_AntiLoop == [][C4_Step]_vars

\* C4 witness: a real recursive pass has returned after skipping a file inside
\* a category folder while moving another file.
C4_Witness ==
    /\ pc = "done" /\ ~dry_run /\ recursive
    /\ \E l \in log : l.kind = "skip" /\ Len(l.src) >= 2
    /\ \E l \in log : l.kind = "moved"

\* The requested name with (i) inserted before its extension.
BeforeExtension(p, i) ==
    LET n == BaseName(p)
        tag == "(" \o ToString(i) \o ")"
    IN  Parent(p) \o
        << IF Len(n) > 1 /\ IsDot(n[Len(n)])
           THEN SubSeq(n, 1, Len(n) - 1) \o <<tag, n[Len(n)]>>
           ELSE n \o <<tag>> >>

\* C5: a real-mode move lands on a path that did not exist, keeps every other
\* file, and ends at the requested path when that is free, else at the requested
\* name with (i) before the extension for the smallest i >= 1 that is free.
C5_Step ==
    \A l \in log' \ log :
        l.kind = "moved" =>
            /\ ~Exists(l.dst, files, dirs)
            /\ \A p \in DOMAIN files \ {l.src} :
                  p \in DOMAIN files' /\ files'[p] = files[p]
            /\ l.dst \in DOMAIN files' /\ files'[l.dst] = files[l.src]
            /\ IF ~Exists(l.req, files, dirs)
               THEN l.dst = l.req
               ELSE \E i \in 1..(Cardinality(DOMAIN files) + Cardinality(dirs) + 1) :
                       /\ l.dst = BeforeExtension(l.req, i)
                       /\ \A j \in 1..(i - 1) :
                             Exists(BeforeExtension(l.req, j), files, dirs)

C5_CollisionSafe == [][C5_Step]_vars

\* C5 witness: a file requested at Documents/a.pdf was moved to Documents/a(2).pdf
\* because a.pdf and a(1).pdf were taken.
C5_Witness ==
    \E l \in log :
        /\ l.kind = "moved"
        /\ l.req = << <<"Documents">>, <<"a", ".pdf">> >>
        /\ l.dst = << <<"Documents">>, <<"a", "(2)", ".pdf">> >>

\* C8 (as claimed): when a real-mode pass has ended, every eligible listed file
\* was processed: it has its own line, a move or its own failure.
C8_ErrorIsolation ==
    (PassEnded /\ ~dry_run) =>
        \A f \in hist.listed :
            ~UnderCategory(f) =>
                \E l \in log : l.src = f /\ l.kind \in {"moved", "raised"}

----------------------------------------------------------------------------
\* Properties of the watch session

\* The timers whose interval passed uncancelled: their pass runs or has ended.
Fired == {id \in 1..Len(timers) : timers[id].st \in {"running", "finished", "failed"}}

\* C6: a burst is a run of accepted events each arriving while the timer of the
\* previous one waits. Every burst gets one pass and no more (the bursts begun
\* are the passes started plus the one timer still waiting), and a pass starts
\* exactly one debounce interval after the last accepted event.
C6_DebounceCoalescing ==
    /\ Cardinality(Fired) + Cardinality(Armed) = wh.bursts
    /\ Cardinality(Fired) = wh.fired
    /\ wh.fired > 0 => wh.waited = Debounce

\* C6 witness: one burst of two external events, the first timer cancelled by
\* the second event, and the one pass of the burst started.
C6_Witness ==
    /\ wh.bursts = 1 /\ wh.fired = 1
    /\ Len(timers) = 2
    /\ timers[1].st = "cancelled" /\ timers[1].by = "external"
    /\ timers[2].st = "running" /\ timers[2].by = "external"

\* C7 (as claimed): no timer is ever armed by an event that a pass's own write
\* produced.
C7_NoSelfRetrigger ==
    \A id \in 1..Len(timers) : timers[id].by # "own"

\* C9: the step in which a pass raises leaves the session, the timer handle and
\* the set of waiting timers as they were; and once a pass has failed, the
\* handler still arms a fresh full-interval timer for every accepted event.
C9_Step ==
    /\ (\E id \in 1..Len(timers) :
            timers[id].st = "running" /\ timers'[id].st = "failed")
       => /\ session' = session
          /\ timer' = timer
          /\ Len(timers') = Len(timers)
          /\ Armed' = Armed
    /\ ( /\ \E id \in 1..Len(timers) : timers[id].st = "failed"
         /\ session = "watching" /\ session' = "watching"
         /\ events # <<>> /\ events' = Tail(events)
         /\ ~Head(events).is_directory
         /\ ~UnderCategory(Head(events).src_path) )
       => /\ Len(timers') = Len(timers) + 1
          /\ timer' = Len(timers')
          /\ timers'[timer'].st = "armed"
          /\ timers'[timer'].left = Debounce

C9_FailedPassKeepsSession == [][C9_Step]_vars

\* C9 witness: a pass failed, and a timer armed later by an external event
\* fired and runs the next pass while the session is still watching.
C9_Witness ==
    /\ session = "watching"
    /\ \E i \in 1..Len(timers) : \E j \in 1..Len(timers) :
          /\ i < j
          /\ timers[i].st = "failed"
          /\ timers[j].st = "running" /\ timers[j].by = "external"

\* C10 (as claimed): watcher.py's command line has no option that requests
\* apply mode, so every pass of a watch session runs with dry_run = TRUE.
C10_SimulateByDefault ==
    \A id \in 1..Len(timers) : timers[id].st = "running" => args_dry

----------------------------------------------------------------------------
\* Destinations and classification

\* The final extension of a name: its last token when that token starts with a
\* dot and does not start the name, "" otherwise (no dot, a leading dot only,
\* or something after the last dot's token).
FinalExtension(name) ==
    IF Len(name) > 1 /\ IsDot(name[Len(name)]) THEN name[Len(name)] ELSE ""

\* The category of a name under a map with lower-cased keys and a fallback.
CategoryOf(name, mapping, fallback) ==
    IF LowerToken(FinalExtension(name)) \in DOMAIN mapping
    THEN mapping[LowerToken(FinalExtension(name))]
    ELSE fallback

\* The lines of the current pass that ask safe_move for a destination.
Requests == {l \in log : l.kind \in {"dry", "moved", "raised"}}

\* C11: every file a pass hands to safe_move is requested at
\* root/category/filename by a non-recursive pass and at
\* root/category/<its directories below the root>/filename by a recursive one,
\* category being the file's classification; a file directly under the root
\* is requested at root/category/filename in both modes.
C11_DestinationConstruction ==
    \A l \in Requests :
       LET name == l.src[Len(l.src)]
           category == <<CategoryOf(name, EXT_MAP, OTHER_FOLDER)>>
       IN  /\ ~recursive => l.req = <<category, name>>
           /\ recursive => l.req = <<category>> \o l.src
           /\ Len(l.src) = 1 => l.req = <<category, name>>

\* C11 witness: a recursive pass moved sub/a.pdf, requested at
\* Documents/sub/a.pdf, and a file directly under the root as well.
C11_Witness ==
    /\ recursive
    /\ \E l \in Requests :
          /\ l.kind = "moved"
          /\ l.src = << <<"sub">>, <<"a", ".pdf">> >>
          /\ l.req = << <<"Documents">>, <<"sub">>, <<"a", ".pdf">> >>
    /\ \E l \in Requests : l.kind = "moved" /\ Len(l.src) = 1

\* C12: classify returns the mapped category when the lower-cased final
\* extension of the path is a key of the map and the fallback category
\* otherwise, and two paths whose final extensions differ only in letter case
\* get the same category.
C12_ClassificationTotality ==
    (pure.op = "returned" /\ pure.fn = "classify") =>
       LET ext == FinalExtension(BaseName(pure.file))
           ext_other == FinalExtension(BaseName(pure.other))
       IN  /\ pure.category = CategoryOf(BaseName(pure.file), pure.mapping, OTHER_FOLDER)
           /\ LowerToken(ext) \in DOMAIN pure.mapping
                 => pure.category = pure.mapping[LowerToken(ext)]
           /\ LowerToken(ext) \notin DOMAIN pure.mapping
                 => pure.category = OTHER_FOLDER
           /\ LowerToken(ext) = LowerToken(ext_other)
                 => pure.category = pure.category_other

\* C12 witness: b.JPG and b.jpg were classified under the shipped map, both
\* as Images.
C12_Witness ==
    /\ pure.op = "returned" /\ pure.fn = "classify"
    /\ pure.mapping = EXT_MAP
    /\ pure.file = << <<"b", ".JPG">> >>
    /\ pure.other = << <<"b", ".jpg">> >>
    /\ pure.category = "Images"
    /\ pure.category_other = "Images"

\* C16: the final destination of every move a pass performed or planned lies
\* inside a folder of the destination category set, directly under the root.
C16_OutputInsideTaxonomy ==
    \A l \in log :
       l.kind \in {"dry", "moved"} =>
          /\ Len(l.dst) >= 2
          /\ \E D \in Categories : l.dst[1] = <<D>>

\* C16 witness: a recursive real pass moved a file out of a subdirectory and
\* moved another one under a collision-renamed final name.
C16_Witness ==
    /\ recursive /\ ~dry_run
    /\ \E l \in log : l.kind = "moved" /\ Len(l.src) = 2
    /\ \E l \in log : l.kind = "moved" /\ l.dst # l.req

\* The files of tree `after` are the files of tree `before`: the same
\* identities, each at exactly one path, and as many paths.
Conserved(before, after) ==
    /\ {after[p] : p \in DOMAIN after} = {before[p] : p \in DOMAIN before}
    /\ \A p \in DOMAIN after : \A q \in DOMAIN after : after[p] = after[q] => p = q
    /\ Cardinality(DOMAIN after) = Cardinality(DOMAIN before)

\* C18: after a sequence of real passes that all returned normally, with no
\* other program writing in between, every file that was under the root
\* before the first of them is under the root at exactly one path, and the
\* number of files is what it was.
C18_FileConservation ==
    (pc = "done" /\ hist.clean) => Conserved(hist.origin, files)

\* C18 witness: two real passes in a row returned normally and each of them
\* moved a file.
C18_Witness ==
    /\ pc = "done" /\ hist.clean /\ runs = 2
    /\ hist.origin # hist.files0
    /\ hist.files0 # files

----------------------------------------------------------------------------
\* Further properties of the watch session

\* The timers whose organize pass is executing.
Running == {id \in 1..Len(timers) : timers[id].st = "running"}

\* C13 (as claimed): two organize passes on the root are never executing at
\* the same time.
C13_OnePassInFlight == Cardinality(Running) <= 1

\* C14 (as claimed): stopping the session cancels the timer that is armed, no
\* pass starts once the session has stopped, and the interpreter does not
\* exit over a pass in progress.
C14_Step ==
    /\ (session = "watching" /\ session' = "stopped") => Armed' = {}
    /\ session # "watching" => Running' \subseteq Running
    /\ session' = "exited" => Running' = {}

C14_TeardownCancelsTimer == [][C14_Step]_vars

\* C15 (as claimed): for every event path the watcher arms the timer exactly
\* when organize would treat that path as eligible; a directory event, a path
\* whose first component under the root is a destination category, and a path
\* that is not under the root arm no timer.
C15_SameEligibilityTest ==
    (pure.op = "returned" /\ pure.fn = "filter") =>
       /\ pure.armed = pure.eligible
       /\ pure.event.is_directory => ~pure.armed
       /\ UnderCategory(pure.event.src_path) => ~pure.armed
       /\ RelativeToRaises(pure.event.src_path) => ~pure.armed

\* C20 (as claimed): the folder names whose events the watcher ignores are
\* the destination category set organize uses, for every map and every
\* fallback category name.
C20_FilterSetsAgree ==
    (pure.op = "returned" /\ pure.fn = "dest_folders") =>
       pure.watcher = pure.organizer

\* C17, safety half: every pass is organize(target, EXT_MAP, dry_run =
\* the session's flag, recursive = True); when the last pass started after
\* every accepted event, no timer is armed.
C17_Idle ==
    /\ wh.fired > 0 => (wh.recursive /\ wh.dry_run = args_dry)
    /\ wh.served = wh.accepted => Armed = {}

\* C17, safety half: a pass starts only when an accepted event has come since
\* the last pass start.
C17_Step == wh'.fired > wh.fired => wh.served < wh.accepted

\* C17: in a session that is not stopped, under fair scheduling, a pass
\* starts after every accepted event; the pass is recursive and uses the
\* session's dry-run flag, and after the pass that follows the last accepted
\* event no timer is armed and no pass starts until the next accepted event.
C17_EventuallyServed ==
    /\ \A n \in 1..MaxTimers :
          (wh.accepted >= n) ~> (wh.served >= n \/ session # "watching")
    /\ []C17_Idle
    /\ [][C17_Step]_vars

\* C17 witness: the session is watching, two events were accepted, the pass
\* that started after both has completed, and nothing is armed, running or
\* queued.
C17_Witness ==
    /\ session = "watching"
    /\ wh.accepted >= 2 /\ wh.served = wh.accepted
    /\ Armed = {} /\ Running = {} /\ events = <<>>
    /\ \E id \in 1..Len(timers) : timers[id].st = "finished"

\* C19: at most one debounce timer is armed at any time, and it is the one
\* the handler's handle names.
C19_SingleArmedTimer ==
    /\ Cardinality(Armed) <= 1
    /\ \A id \in Armed : id = timer

\* C19 witness: an event replaced an armed timer (now cancelled) while the
\* pass of an earlier timer is running, and one timer is armed.
C19_Witness ==
    /\ Cardinality(Armed) = 1
    /\ Running # {}
    /\ \E id \in 1..Len(timers) : timers[id].st = "cancelled"

====
